---- MODULE Spec2Model ----
(***************************************************************************)
(* Model of scripts/load_data.py: the Steam games dataset loader.          *)
(*                                                                         *)
(*   - the field coercers safe_int, safe_float, safe_str and parse_date,   *)
(*     as operators on character sequences;                                *)
(*   - load_games, populate_normalized_tables and main as a state machine  *)
(*     over a MySQL connection with one open transaction.                  *)
(*                                                                         *)
(* A Python str is a sequence of one-character strings.  An optional       *)
(* value (Python None / SQL NULL) is a sequence of length at most one:     *)
(* <<>> is None, <<v>> is the value v.                                     *)
(***************************************************************************)
EXTENDS Integers, Sequences, FiniteSets, TLC

\* ------------------------------------------------------------------ bounds
MaxStrLen == 3      \* longest raw string handed to safe_int / safe_float
MaxListLen == 2     \* longest non-scalar (list) value handed to a coercer
MaxRows == 3        \* most records in the source CSV
MaxBatch == 2       \* largest batch_size tried
MaxRuns == 2        \* most runs of the pipeline over the same database
MaxSwallowed == 1   \* most INSERTs of the normaliser that raise

\* ------------------------------------------------------------- characters
None == <<>>
Some(v) == <<v>>

Digits == <<"0", "1", "2", "3", "4", "5", "6", "7", "8", "9">>
UpperCase == <<"A", "B", "C", "D", "E", "F", "G", "H", "I", "J", "K", "L", "M",
               "N", "O", "P", "Q", "R", "S", "T", "U", "V", "W", "X", "Y", "Z">>
LowerCase == <<"a", "b", "c", "d", "e", "f", "g", "h", "i", "j", "k", "l", "m",
               "n", "o", "p", "q", "r", "s", "t", "u", "v", "w", "x", "y", "z">>

Range(f) == {f[i] : i \in DOMAIN f}
IndexOf(seq, c) == CHOOSE i \in DOMAIN seq : seq[i] = c

DigitChars == Range(Digits)
UpperChars == Range(UpperCase)
Letters == UpperChars \cup Range(LowerCase)

IsDigit(c) == c \in DigitChars
DigitVal(c) == IndexOf(Digits, c) - 1
IsLetter(c) == c \in Letters
IsSpace(c) == c = " "
\* \w of the re module: letters, digits and the underscore
IsWordChar(c) == IsLetter(c) \/ IsDigit(c) \/ c = "_"

\* str.lower() on one character and on a string
LowerChar(c) == IF c \in UpperChars THEN LowerCase[IndexOf(UpperCase, c)] ELSE c
Lower(s) == [i \in DOMAIN s |-> LowerChar(s[i])]

RECURSIVE LStrip(_)
LStrip(s) == IF s # <<>> /\ IsSpace(Head(s)) THEN LStrip(Tail(s)) ELSE s
RECURSIVE RStrip(_)
RStrip(s) ==
  IF s # <<>> /\ IsSpace(s[Len(s)]) THEN RStrip(SubSeq(s, 1, Len(s) - 1)) ELSE s
\* str.strip()
Strip(s) == LStrip(RStrip(s))

RECURSIVE Pow10(_)
Pow10(k) == IF k = 0 THEN 1 ELSE 10 * Pow10(k - 1)

\* the number a string of decimal digits denotes
RECURSIVE DigitsVal(_)
DigitsVal(s) ==
  IF s = <<>> THEN 0 ELSE 10 * DigitsVal(SubSeq(s, 1, Len(s) - 1)) + DigitVal(s[Len(s)])

AllDigits(s) == \A i \in DOMAIN s : IsDigit(s[i])

\* ------------------------------------------------------------ Python float
\* A float is finite (n counts units of 1/Scale), infinite or NaN.
FracDigits == MaxStrLen
Scale == Pow10(FracDigits)
Fin(n) == [cls |-> "fin", n |-> n]
Inf == [cls |-> "inf"]
NaN == [cls |-> "nan"]

Ok(v) == [tag |-> "ok", v |-> v]
Raise(exc) == [tag |-> "raise", exc |-> exc]

\* the unsigned decimal literals float() accepts: digits, digits. , .digits,
\* digits.digits (the alphabet of the inputs has no exponent and no "_")
\* the first place where c stands in s
FirstIndexOf(s, c) == CHOOSE i \in DOMAIN s : s[i] = c /\ \A j \in 1..(i - 1) : s[j] # c
DotPos(s) == IF \E i \in DOMAIN s : s[i] = "." THEN FirstIndexOf(s, ".") ELSE 0
IntPart(s) == IF DotPos(s) = 0 THEN s ELSE SubSeq(s, 1, DotPos(s) - 1)
FracPart(s) == IF DotPos(s) = 0 THEN <<>> ELSE SubSeq(s, DotPos(s) + 1, Len(s))
IsDecimal(s) ==
  /\ AllDigits(IntPart(s))
  /\ AllDigits(FracPart(s))
  /\ Len(IntPart(s)) + Len(FracPart(s)) >= 1
DecimalVal(s) ==
  LET f == FracPart(s)
      kept == SubSeq(f, 1, IF Len(f) < FracDigits THEN Len(f) ELSE FracDigits)
  IN DigitsVal(IntPart(s)) * Scale + DigitsVal(kept) * Pow10(FracDigits - Len(kept))

HasSign(s) == s # <<>> /\ Head(s) \in {"+", "-"}
Unsigned(s) == IF HasSign(s) THEN Tail(s) ELSE s
Signed(s, n) == IF HasSign(s) /\ Head(s) = "-" THEN 0 - n ELSE n

\* float(str): surrounding whitespace is dropped, then an optional sign, then
\* a decimal literal or one of inf / infinity / nan in any case
FloatOfStr(s) ==
  LET t == Strip(s)
      u == Lower(Unsigned(t))
  IN IF u \in {<<"i", "n", "f">>, <<"i", "n", "f", "i", "n", "i", "t", "y">>} THEN Ok(Inf)
     ELSE IF u = <<"n", "a", "n">> THEN Ok(NaN)
     ELSE IF IsDecimal(u) THEN Ok(Fin(Signed(t, DecimalVal(u))))
     ELSE Raise("ValueError")

\* ------------------------------------------------------------- raw values
\* What row.get(column) hands to a coercer:
\*   [kind |-> "na"]               the missing marker (NaN, None)
\*   [kind |-> "str", s |-> chars] a str
\*   [kind |-> "num", f |-> float] an int or float that is not NaN
\*   [kind |-> "bool", b |-> b]    a bool
\*   [kind |-> "list", n |-> n]    a list of n scalars that are not missing
\*   [kind |-> "obj"]              any other object (a dict)
Na == [kind |-> "na"]
Str(s) == [kind |-> "str", s |-> s]
Num(f) == [kind |-> "num", f |-> f]
Bool(b) == [kind |-> "bool", b |-> b]
List(n) == [kind |-> "list", n |-> n]
Obj == [kind |-> "obj"]

\* `if pd.isna(value)`: pd.isna of a list is an array of booleans, and bool()
\* of an array of two or more elements raises ValueError.
IsNaTest(value) ==
  IF value.kind = "na" THEN Ok(TRUE)
  ELSE IF value.kind = "list" /\ value.n >= 2 THEN Raise("ValueError")
  ELSE Ok(FALSE)

\* float(value)
PyFloat(value) ==
  IF value.kind = "str" THEN FloatOfStr(value.s)
  ELSE IF value.kind = "num" THEN Ok(value.f)
  ELSE IF value.kind = "bool" THEN Ok(Fin(IF value.b THEN Scale ELSE 0))
  ELSE Raise("TypeError")

\* int(float): truncation toward zero; OverflowError on an infinity,
\* ValueError on a NaN
IntTrunc(f) ==
  IF f.cls = "inf" THEN Raise("OverflowError")
  ELSE IF f.cls = "nan" THEN Raise("ValueError")
  ELSE Ok(IF f.n >= 0 THEN f.n \div Scale ELSE 0 - ((0 - f.n) \div Scale))

\* int(float(value))
PyIntFloat(value) ==
  LET f == PyFloat(value) IN IF f.tag = "raise" THEN f ELSE IntTrunc(f.v)

\* try: ... except (ValueError, TypeError): return default
CatchValueType(res, default) ==
  IF res.tag = "raise" /\ res.exc \in {"ValueError", "TypeError"} THEN Ok(default) ELSE res

safe_int(value, default) ==
  LET na == IsNaTest(value)
  IN IF na.tag = "raise" THEN na
     ELSE IF na.v THEN Ok(default)
     ELSE CatchValueType(PyIntFloat(value), default)

safe_float(value, default) ==
  LET na == IsNaTest(value)
  IN IF na.tag = "raise" THEN na
     ELSE IF na.v THEN Ok(default)
     ELSE CatchValueType(PyFloat(value), default)

\* str(value); the loader's text columns hold a str or the missing marker
PyStr(value) == IF value.kind = "str" THEN value.s ELSE <<>>

\* max_length = 0 stands for max_length=None
safe_str(value, max_length) ==
  LET na == IsNaTest(value)
      stripped == Strip(PyStr(value))
      result == IF max_length # 0 /\ Len(stripped) > max_length
                THEN SubSeq(stripped, 1, max_length) ELSE stripped
  IN IF na.tag = "raise" THEN na
     ELSE IF na.v THEN Ok(None)
     ELSE Ok(IF result # <<>> THEN Some(result) ELSE None)

\* -------------------------------------------------------------- parse_date
\* The month names of the C locale, lower-cased as _strptime compares them.
MonthAbbr ==
  << <<"j", "a", "n">>, <<"f", "e", "b">>, <<"m", "a", "r">>, <<"a", "p", "r">>,
     <<"m", "a", "y">>, <<"j", "u", "n">>, <<"j", "u", "l">>, <<"a", "u", "g">>,
     <<"s", "e", "p">>, <<"o", "c", "t">>, <<"n", "o", "v">>, <<"d", "e", "c">> >>
MonthFull ==
  << <<"j", "a", "n", "u", "a", "r", "y">>, <<"f", "e", "b", "r", "u", "a", "r", "y">>,
     <<"m", "a", "r", "c", "h">>, <<"a", "p", "r", "i", "l">>, <<"m", "a", "y">>,
     <<"j", "u", "n", "e">>, <<"j", "u", "l", "y">>, <<"a", "u", "g", "u", "s", "t">>,
     <<"s", "e", "p", "t", "e", "m", "b", "e", "r">>, <<"o", "c", "t", "o", "b", "e", "r">>,
     <<"n", "o", "v", "e", "m", "b", "e", "r">>, <<"d", "e", "c", "e", "m", "b", "e", "r">> >>

\* The date string cut into maximal runs: letters, digits, whitespace; any
\* other character is a token of its own.  Every directive of the four
\* formats is delimited by a literal or by whitespace, so the regular
\* expression _strptime builds matches a string exactly when its runs match.
CharClass(c) ==
  IF IsLetter(c) THEN "alpha" ELSE IF IsDigit(c) THEN "num"
  ELSE IF IsSpace(c) THEN "space" ELSE "punct"
RECURSIVE RunLen(_, _)
RunLen(s, cls) ==
  IF s # <<>> /\ CharClass(Head(s)) = cls THEN 1 + RunLen(Tail(s), cls) ELSE 0
RECURSIVE Tokenize(_)
Tokenize(s) ==
  IF s = <<>> THEN <<>>
  ELSE LET cls == CharClass(Head(s))
           n == IF cls = "punct" THEN 1 ELSE RunLen(s, cls)
       IN <<[t |-> cls, s |-> SubSeq(s, 1, n)]>> \o Tokenize(SubSeq(s, n + 1, Len(s)))

\* One directive or literal of a format against one token: the value it
\* yields (0 for a literal), or -1 when it does not match.
\*   %b, %B  a month name, any case          %Y  exactly four digits
\*   %d      1..31 in one or two digits      %m  1..12 in one or two digits
\*   " "     \s+                             ",", "-"  the character itself
MonthIn(names, tok) ==
  IF tok.t = "alpha" /\ \E m \in DOMAIN names : names[m] = Lower(tok.s)
  THEN CHOOSE m \in DOMAIN names : names[m] = Lower(tok.s) ELSE -1
NumIn(tok, maxLen, lo, hi) ==
  IF tok.t = "num" /\ Len(tok.s) <= maxLen /\ DigitsVal(tok.s) >= lo /\ DigitsVal(tok.s) <= hi
  THEN DigitsVal(tok.s) ELSE -1
MatchItem(item, tok) ==
  IF item = "%b" THEN MonthIn(MonthAbbr, tok)
  ELSE IF item = "%B" THEN MonthIn(MonthFull, tok)
  ELSE IF item = "%d" THEN NumIn(tok, 2, 1, 31)
  ELSE IF item = "%m" THEN NumIn(tok, 2, 1, 12)
  ELSE IF item = "%Y" THEN (IF tok.t = "num" /\ Len(tok.s) = 4 THEN DigitsVal(tok.s) ELSE -1)
  ELSE IF item = " " THEN (IF tok.t = "space" THEN 0 ELSE -1)
  ELSE IF tok.t = "punct" /\ tok.s = <<item>> THEN 0 ELSE -1

\* the formats of parse_date, in the order it tries them
formats ==
  << <<"%b", " ", "%d", ",", " ", "%Y">>,
     <<"%B", " ", "%d", ",", " ", "%Y">>,
     <<"%Y", "-", "%m", "-", "%d">>,
     <<"%d", " ", "%b", ",", " ", "%Y">> >>

IsLeap(y) == (y % 4 = 0 /\ y % 100 # 0) \/ y % 400 = 0
DaysIn(y, m) ==
  IF m = 2 THEN (IF IsLeap(y) THEN 29 ELSE 28)
  ELSE IF m \in {4, 6, 9, 11} THEN 30 ELSE 31

FieldOf(fmt, toks, names) ==
  LET i == CHOOSE i \in DOMAIN fmt : fmt[i] \in names IN MatchItem(fmt[i], toks[i])

\* datetime.strptime(s, fmt): the datetime, or ValueError when the string
\* does not match the whole format or names no day of the calendar
strptime(s, fmt) ==
  LET toks == Tokenize(s)
  IN IF Len(toks) # Len(fmt) \/ \E i \in DOMAIN fmt : MatchItem(fmt[i], toks[i]) = -1
     THEN Raise("ValueError")
     ELSE LET y == FieldOf(fmt, toks, {"%Y"})
              m == FieldOf(fmt, toks, {"%b", "%B", "%m"})
              d == FieldOf(fmt, toks, {"%d"})
          IN IF y < 1 \/ d > DaysIn(y, m) THEN Raise("ValueError")
             ELSE Ok([year |-> y, month |-> m, day |-> d])

\* zero-padded decimal of n in w digits
RECURSIVE Pad(_, _)
Pad(n, w) == IF w = 0 THEN <<>> ELSE Pad(n \div 10, w - 1) \o <<Digits[(n % 10) + 1]>>
\* dt.strftime("%Y-%m-%d")
strftime(dt) == Pad(dt.year, 4) \o <<"-">> \o Pad(dt.month, 2) \o <<"-">> \o Pad(dt.day, 2)
\* f"{year}-01-01"
YearJan1(year) == Pad(year, 4) \o <<"-", "0", "1", "-", "0", "1">>

\* (19|20)\d{2}\b: the boundary before the digits is not asked for
YearAtNoLeftBoundary(s, i) ==
  /\ i + 3 <= Len(s)
  /\ AllDigits(SubSeq(s, i, i + 3))
  /\ SubSeq(s, i, i + 1) \in {<<"1", "9">>, <<"2", "0">>}
  /\ (i + 3 = Len(s) \/ ~IsWordChar(s[i + 4]))

\* re.search(r'\b(19|20)\d{2}\b', s): the leftmost place where four digits
\* starting 19 or 20 stand between two word boundaries; 0 when there is none
YearAt(s, i) ==
  /\ i + 3 <= Len(s)
  /\ AllDigits(SubSeq(s, i, i + 3))
  /\ SubSeq(s, i, i + 1) \in {<<"1", "9">>, <<"2", "0">>}
  /\ (i = 1 \/ ~IsWordChar(s[i - 1]))
  /\ (i + 3 = Len(s) \/ ~IsWordChar(s[i + 4]))
YearSearch(s) ==
  IF \E i \in DOMAIN s : YearAt(s, i)
  THEN CHOOSE i \in DOMAIN s : YearAt(s, i) /\ \A j \in 1..(i - 1) : ~YearAt(s, j)
  ELSE 0

\* the first format, from the k-th on, that parses s; 0 when none does
RECURSIVE FirstFormat(_, _)
FirstFormat(s, k) ==
  IF k > Len(formats) THEN 0
  ELSE IF strptime(s, formats[k]).tag = "ok" THEN k ELSE FirstFormat(s, k + 1)

DateResult(date, year) == [date |-> date, year |-> year]

parse_date(value) ==
  IF value.kind = "na" \/ value.s = <<>> THEN DateResult(None, None)
  ELSE LET date_str == Strip(value.s)
           k == FirstFormat(date_str, 1)
           at == YearSearch(date_str)
       IN IF k # 0
          THEN LET dt == strptime(date_str, formats[k]).v
               IN DateResult(Some(strftime(dt)), Some(dt.year))
          ELSE IF at # 0
          THEN LET year == DigitsVal(SubSeq(date_str, at, at + 3))
               IN DateResult(Some(YearJan1(year)), Some(year))
          ELSE DateResult(None, None)

\* -------------------------------------------------------------- the source
\* One record of the CSV, by column name.  Of the 41 columns the model keeps
\* the key, the four columns ON DUPLICATE KEY UPDATE rewrites, and three of
\* the 36 it does not (the release date and the two list fields normalised
\* later); the other 33 are treated by the statement exactly as these three.
Row(app, name, date, price, pos, neg, genres, tags) ==
  [AppID |-> app, Name |-> name, ReleaseDate |-> date, Price |-> price,
   Positive |-> pos, Negative |-> neg, Genres |-> genres, Tags |-> tags]

Whole(n) == Num(Fin(n * Scale))
Half(n) == Num(Fin((n * Scale) \div 2))

DateOct5 == Str(<<"O", "c", "t", " ", "5", ",", " ", "2", "0", "2", "4">>)
DateCirca == Str(<<"c", "a", " ", "2", "0", "1", "9">>)
GenresARA == Str(<<"A", ",", " ", "R", ",", " ", "A">>)
GenresR == Str(<<" ", "R", ",", ",">>)
TagsI == Str(<<"I">>)
TagsI2 == Str(<<"I", ",", " ">>)

\* Two records of app 1 that differ in every column, and one of app 2 whose
\* key arrives as the float 2.5.
RecordPool ==
  { Row(Whole(1), Str(<<"a">>), DateOct5, Half(3), Whole(1), Whole(0), GenresARA, TagsI),
    Row(Whole(1), Str(<<"b", " ">>), Na, Whole(2), Whole(2), Whole(1), GenresR, Na),
    Row(Half(5), Str(<<"a">>), DateCirca, Whole(0), Whole(0), Whole(0), Na, TagsI2) }

Sources == UNION {[1..n -> RecordPool] : n \in 0..MaxRows}

\* ----------------------------------------------------------- the row mapper
NameMaxLen == 500

\* The values tuple of load_games, by target column.  A coercer that raises
\* ends the row: the exception reaches the except clause of the loop.
Values(row) ==
  LET app == safe_int(row.AppID, 0)
      name == safe_str(row.Name, NameMaxLen)
      rd == parse_date(row.ReleaseDate)
      price == safe_float(row.Price, Fin(0))
      pos == safe_int(row.Positive, 0)
      neg == safe_int(row.Negative, 0)
      genres == safe_str(row.Genres, 0)
      tags == safe_str(row.Tags, 0)
      all == <<app, name, price, pos, neg, genres, tags>>
  IN IF \E i \in DOMAIN all : all[i].tag = "raise"
     THEN all[CHOOSE i \in DOMAIN all : all[i].tag = "raise"
                                        /\ \A j \in 1..(i - 1) : all[j].tag = "ok"]
     ELSE Ok([app_id |-> app.v, name |-> name.v,
              release_date |-> rd.date, release_year |-> rd.year,
              price |-> price.v, positive_reviews |-> pos.v,
              negative_reviews |-> neg.v, genres |-> genres.v, tags |-> tags.v])

\* safe_int(row.get('AppID')), the key the record is stored under; a source
\* whose key column raises in the coercer has no key
RowKey(row) == safe_int(row.AppID, 0).v

\* ---------------------------------------------------------------- the store
\* The games table is a function from the stored keys to their rows.  A
\* lookup table and a junction table are sequences of rows in insertion order.
EmptyGames == [k \in {} |-> 0]
EmptyDb ==
  [games |-> EmptyGames, genres |-> <<>>, game_genres |-> <<>>, tags |-> <<>>,
   game_tags |-> <<>>]

\* the key of the games table, on which ON DUPLICATE KEY UPDATE collides
GamesKey(v) == v.app_id

\* REPLACE INTO games: on a collision the whole row is rewritten
UpsertReplace(games, v) == (GamesKey(v) :> v) @@ games

\* ON DUPLICATE KEY UPDATE positive_reviews = positive_reviews + VALUES(...):
\* on a collision the review counts are added up
UpsertAccumulate(games, v) ==
  IF GamesKey(v) \in DOMAIN games
  THEN [games EXCEPT ![GamesKey(v)] =
          [@ EXCEPT !.name = v.name, !.price = v.price,
                    !.positive_reviews = @ + v.positive_reviews,
                    !.negative_reviews = @ + v.negative_reviews]]
  ELSE (GamesKey(v) :> v) @@ games

\* INSERT IGNORE INTO games (...): on a collision the stored row stays as it
\* is, so the first record of a key wins
UpsertIgnore(games, v) ==
  IF GamesKey(v) \in DOMAIN games THEN games ELSE (GamesKey(v) :> v) @@ games

\* INSERT INTO games (...) VALUES (...) ON DUPLICATE KEY UPDATE name, price,
\* positive_reviews, negative_reviews
Upsert(games, v) ==
  IF GamesKey(v) \in DOMAIN games
  THEN [games EXCEPT ![GamesKey(v)] =
          [@ EXCEPT !.name = v.name, !.price = v.price,
                    !.positive_reviews = v.positive_reviews,
                    !.negative_reviews = v.negative_reviews]]
  ELSE (GamesKey(v) :> v) @@ games

\* the unique keys of the lookup and the junction table
LabelKey(r) == r.name
LinkKey(r) == <<r.game_id, r.genre_id>>

\* INSERT IGNORE INTO genres (name) VALUES (%s)   (and the same for tags)
InsertIgnoreLabel(tbl, name) ==
  LET row == [id |-> Len(tbl) + 1, name |-> name]
  IN IF \E i \in DOMAIN tbl : LabelKey(tbl[i]) = LabelKey(row) THEN tbl ELSE Append(tbl, row)

\* INSERT INTO game_genres ... SELECT: a link per matching lookup row, with
\* no regard for the links already there
RECURSIVE InsertLinkFrom(_, _, _, _, _)
InsertLinkFrom(links, lookup, app_id, name, i) ==
  IF i > Len(lookup) THEN links
  ELSE InsertLinkFrom(IF lookup[i].name = name
                      THEN Append(links, [game_id |-> app_id, genre_id |-> lookup[i].id])
                      ELSE links,
                      lookup, app_id, name, i + 1)
InsertLink(links, lookup, app_id, name) == InsertLinkFrom(links, lookup, app_id, name, 1)

\* INSERT IGNORE INTO game_genres (game_id, genre_id)
\*   SELECT %s, id FROM genres WHERE name = %s
RECURSIVE InsertIgnoreLinkFrom(_, _, _, _, _)
InsertIgnoreLinkFrom(links, lookup, app_id, name, i) ==
  IF i > Len(lookup) THEN links
  ELSE LET row == [game_id |-> app_id, genre_id |-> lookup[i].id]
           hit == lookup[i].name = name
                  /\ ~\E j \in DOMAIN links : LinkKey(links[j]) = LinkKey(row)
       IN InsertIgnoreLinkFrom(IF hit THEN Append(links, row) ELSE links,
                               lookup, app_id, name, i + 1)
InsertIgnoreLink(links, lookup, app_id, name) ==
  InsertIgnoreLinkFrom(links, lookup, app_id, name, 1)

\* s.split(',')
RECURSIVE Split(_)
Split(s) ==
  IF \E i \in DOMAIN s : s[i] = ","
  THEN LET i == FirstIndexOf(s, ",") IN <<SubSeq(s, 1, i - 1)>> \o Split(SubSeq(s, i + 1, Len(s)))
  ELSE <<s>>
\* the labels of a list field: split on commas, strip, drop the empty ones
Labels(s) == SelectSeq([i \in DOMAIN Split(s) |-> Strip(Split(s)[i])], LAMBDA t : t # <<>>)

\* SELECT DISTINCT <field> FROM games WHERE <field> IS NOT NULL AND <field> != ''
\* followed by the loop that collects the labels of every value into a set
AllLabels(games, field) ==
  UNION { Range(Labels(games[k][field][1])) :
            k \in {a \in DOMAIN games : games[a][field] # None /\ games[a][field][1] # <<>>} }

\* the keys of a set of integers in ascending order
RECURSIVE Ascending(_)
Ascending(S) ==
  IF S = {} THEN <<>>
  ELSE LET m == CHOOSE x \in S : \A y \in S : x <= y IN <<m>> \o Ascending(S \ {m})

\* SELECT app_id, genres FROM games WHERE genres IS NOT NULL, in key order
LinkRows(games) ==
  LET keys == Ascending({a \in DOMAIN games : games[a].genres # None})
  IN [i \in DOMAIN keys |-> [app_id |-> keys[i], genres |-> games[keys[i]].genres[1]]]

\* the link inserts of one fetched row, label by label; the inserts whose
\* place is in `bad` raise and are passed over by `except: pass`
RECURSIVE LinkFrom(_, _, _, _, _, _)
LinkFrom(links, lookup, app_id, toks, bad, i) ==
  IF i > Len(toks) THEN links
  ELSE LinkFrom(IF i \in bad THEN links ELSE InsertIgnoreLink(links, lookup, app_id, toks[i]),
                lookup, app_id, toks, bad, i + 1)

\* a batch one row too long
BatchDueLate(n, size) == n % (size + 1) = 0

\* if inserted % batch_size == 0
BatchDue(n, size) == n % size = 0

\* ------------------------------------------------------------------- state
VARIABLES
  source,       \* the records of the CSV, in file order
  rejects,      \* the places of the records whose INSERT the store refuses
  batch_size,   \* load_games' batch_size
  pc,           \* where main() stands
  runs,         \* how many times main() has been started
  conn,         \* "none", "open" or "closed"
  schema,       \* the statements of schema.sql have been executed in this run
  idx,          \* load_games: the place of the next record
  inserted,     \* load_games: inserted
  errors,       \* load_games: errors
  uncommitted,  \* rows executed since the last commit
  lastOp,       \* what the last cursor.execute of load_games did
  db,           \* the tables as the connection sees them
  committed,    \* the tables as last committed
  labels,       \* populate_normalized_tables: labels still to insert
  cursor,       \* populate_normalized_tables: the rows fetched for the link pass
  pos,          \* populate_normalized_tables: the place of the next fetched row
  report,       \* what has been printed: the load totals and the final count
  swallowed,    \* how many INSERTs of the normaliser raised and were passed over
  exc,          \* the statement whose exception left main(), or "none"
  lost,         \* rows rolled back by a crash
  snap,         \* the tables at the end of the previous run
  call,         \* a coercer call: its function and argument
  ret           \* what the call returned or raised

loadVars == <<idx, inserted, errors, uncommitted, lastOp>>
normVars == <<labels, cursor, pos>>
inputVars == <<source, rejects, batch_size>>
coerceVars == <<call, ret>>
vars == <<source, rejects, batch_size, pc, runs, conn, schema, idx, inserted, errors,
          uncommitted, lastOp, db, committed, labels, cursor, pos, report, swallowed,
          exc, lost, snap, call, ret>>

NoReport == [loaded |-> None, count |-> None]
NoCall == [fn |-> "none"]
NoRet == [tag |-> "none"]

\* the state of the pipeline before main() is started
Idle ==
  /\ pc = "connect" /\ runs = 1 /\ conn = "none" /\ schema = FALSE
  /\ idx = 0 /\ inserted = 0 /\ errors = 0 /\ uncommitted = 0 /\ lastOp = "none"
  /\ db = EmptyDb /\ committed = EmptyDb /\ snap = EmptyDb
  /\ labels = {} /\ cursor = <<>> /\ pos = 0
  /\ report = NoReport /\ swallowed = 0 /\ exc = "none" /\ lost = 0

Init ==
  /\ source \in Sources
  /\ rejects \in SUBSET (DOMAIN source)
  /\ batch_size \in 1..MaxBatch
  /\ Idle
  /\ call = NoCall /\ ret = NoRet

\* An exception leaves main(): the process ends, and the store rolls back
\* what the connection had not committed.
Propagate(site) ==
  /\ pc' = "raised" /\ exc' = site /\ db' = committed
  /\ UNCHANGED <<conn, committed, report>>

\* conn.commit(), then on to `next`
CommitOrRaise(err, site, next) ==
  IF err THEN Propagate(site)
  ELSE pc' = next /\ committed' = db /\ UNCHANGED <<db, conn, report, exc>>

\* ------------------------------------------------------------------- main
\* conn = create_connection()
CreateConnection ==
  /\ pc = "connect"
  /\ \E err \in BOOLEAN :
       IF err THEN Propagate("connect")
       ELSE pc' = "schema" /\ conn' = "open" /\ UNCHANGED <<db, committed, report, exc>>
  /\ UNCHANGED <<inputVars, loadVars, normVars, coerceVars, runs, schema, swallowed, lost, snap>>

\* execute_schema with the unreadable script logged as a warning
ExecuteSchemaWarns ==
  /\ pc = "schema"
  /\ \E err \in BOOLEAN :
       /\ exc' = IF err THEN "schema_read" ELSE exc
       /\ schema' = ~err /\ pc' = "load" /\ committed' = db
       /\ UNCHANGED <<db, conn, report>>
  /\ UNCHANGED <<inputVars, loadVars, normVars, coerceVars, runs, swallowed, lost, snap>>

\* execute_schema(conn, schema_path): open() raises when the script cannot be
\* read; a statement that fails is a warning; then conn.commit()
ExecuteSchema ==
  /\ pc = "schema"
  /\ \E err \in BOOLEAN :
       IF err THEN Propagate("schema_read") /\ UNCHANGED schema
       ELSE /\ schema' = TRUE /\ pc' = "load" /\ committed' = db
            /\ UNCHANGED <<db, conn, report, exc>>
  /\ UNCHANGED <<inputVars, loadVars, normVars, coerceVars, runs, swallowed, lost, snap>>

\* ------------------------------------------------------------- load_games
\* df = pd.read_csv(...); inserted = 0; errors = 0
LoadBegin ==
  /\ pc = "load"
  /\ pc' = "load_loop" /\ idx' = 1 /\ inserted' = 0 /\ errors' = 0
  /\ UNCHANGED <<inputVars, normVars, coerceVars, runs, conn, schema, uncommitted, lastOp,
                 db, committed, report, swallowed, exc, lost, snap>>

\* the loop with `break` for the except clause's fall-through
LoadRowBreak ==
  /\ pc = "load_loop" /\ idx <= Len(source)
  /\ LET values == Values(source[idx])
     IN IF values.tag = "raise" \/ idx \in rejects
        THEN /\ errors' = errors + 1 /\ lastOp' = "error" /\ idx' = Len(source) + 1
             /\ UNCHANGED <<inserted, uncommitted, db, pc>>
        ELSE /\ db' = [db EXCEPT !.games = Upsert(@, values.v)]
             /\ lastOp' = IF GamesKey(values.v) \in DOMAIN db.games THEN "update" ELSE "insert"
             /\ inserted' = inserted + 1 /\ uncommitted' = uncommitted + 1
             /\ pc' = IF BatchDue(inserted + 1, batch_size) THEN "load_commit" ELSE "load_loop"
             /\ idx' = idx + 1
             /\ UNCHANGED errors
  /\ UNCHANGED <<inputVars, normVars, coerceVars, runs, conn, schema, committed, report,
                 swallowed, exc, lost, snap>>

\* the loop with a refused statement leaving its row behind, half written
\* (the key and no name), and committed at once
LoadRowPartialWrite ==
  /\ pc = "load_loop" /\ idx <= Len(source)
  /\ LET values == Values(source[idx])
     IN IF values.tag = "raise"
        THEN /\ errors' = errors + 1 /\ lastOp' = "error"
             /\ UNCHANGED <<inserted, uncommitted, db, committed, pc>>
        ELSE IF idx \in rejects
        THEN /\ errors' = errors + 1 /\ lastOp' = "error"
             /\ db' = [db EXCEPT !.games = Upsert(@, [values.v EXCEPT !.name = None])]
             /\ committed' = [committed EXCEPT !.games =
                                Upsert(@, [values.v EXCEPT !.name = None])]
             /\ UNCHANGED <<inserted, uncommitted, pc>>
        ELSE /\ db' = [db EXCEPT !.games = Upsert(@, values.v)]
             /\ lastOp' = IF GamesKey(values.v) \in DOMAIN db.games THEN "update" ELSE "insert"
             /\ inserted' = inserted + 1 /\ uncommitted' = uncommitted + 1
             /\ pc' = IF BatchDue(inserted + 1, batch_size) THEN "load_commit" ELSE "load_loop"
             /\ UNCHANGED <<errors, committed>>
  /\ idx' = idx + 1
  /\ UNCHANGED <<inputVars, normVars, coerceVars, runs, conn, schema, report,
                 swallowed, exc, lost, snap>>

\* one turn of the loop, up to the test of the batch: map the record,
\* execute the statement, count it
LoadRow ==
  /\ pc = "load_loop" /\ idx <= Len(source)
  /\ LET values == Values(source[idx])
     IN IF values.tag = "raise" \/ idx \in rejects
        THEN /\ errors' = errors + 1 /\ lastOp' = "error"
             /\ UNCHANGED <<inserted, uncommitted, db, pc>>
        ELSE /\ db' = [db EXCEPT !.games = Upsert(@, values.v)]
             /\ lastOp' = IF GamesKey(values.v) \in DOMAIN db.games THEN "update" ELSE "insert"
             /\ inserted' = inserted + 1 /\ uncommitted' = uncommitted + 1
             /\ pc' = IF BatchDue(inserted + 1, batch_size) THEN "load_commit" ELSE "load_loop"
             /\ UNCHANGED errors
  /\ idx' = idx + 1
  /\ UNCHANGED <<inputVars, normVars, coerceVars, runs, conn, schema, committed, report,
                 swallowed, exc, lost, snap>>

\* conn.commit() inside the loop
LoadBatchCommit ==
  /\ pc = "load_commit"
  /\ pc' = "load_loop" /\ committed' = db /\ uncommitted' = 0
  /\ UNCHANGED <<inputVars, normVars, coerceVars, runs, conn, schema, idx, inserted, errors,
                 lastOp, db, report, swallowed, exc, lost, snap>>

\* the end of load_games with the totals printed and no commit issued
LoadFinishNoCommit ==
  /\ pc = "load_loop" /\ idx > Len(source)
  /\ pc' = "norm_genres"
  /\ report' = [report EXCEPT !.loaded = Some([inserted |-> inserted, errors |-> errors])]
  /\ UNCHANGED <<inputVars, normVars, coerceVars, runs, conn, schema, idx, inserted, errors,
                 uncommitted, lastOp, db, committed, swallowed, exc, lost, snap>>

\* after the loop: conn.commit(), then the totals are printed
LoadFinish ==
  /\ pc = "load_loop" /\ idx > Len(source)
  /\ pc' = "norm_genres" /\ committed' = db /\ uncommitted' = 0
  /\ report' = [report EXCEPT !.loaded = Some([inserted |-> inserted, errors |-> errors])]
  /\ UNCHANGED <<inputVars, normVars, coerceVars, runs, conn, schema, idx, inserted, errors,
                 lastOp, db, swallowed, exc, lost, snap>>

\* The process is killed while load_games runs: the store rolls back the
\* rows executed since the last commit.
Crash ==
  /\ pc \in {"load_loop", "load_commit"}
  /\ pc' = "crashed" /\ db' = committed /\ lost' = uncommitted
  /\ UNCHANGED <<inputVars, loadVars, normVars, coerceVars, runs, conn, schema, committed,
                 report, swallowed, exc, snap>>

\* ------------------------------------------------ populate_normalized_tables
\* Which of the next n INSERTs raise: any of them, while fewer than
\* MaxSwallowed have raised so far.
StoreErrors(n) == {bad \in SUBSET (1..n) : swallowed + Cardinality(bad) <= MaxSwallowed}

\* the statements of the normaliser leave these alone
normFrame == <<inputVars, loadVars, coerceVars, runs, schema, lost, snap>>

\* SELECT DISTINCT genres ..., and the set all_genres built from its rows
NormScanGenres ==
  /\ pc = "norm_genres"
  /\ \E err \in BOOLEAN :
       IF err THEN Propagate("select_genres") /\ UNCHANGED labels
       ELSE /\ labels' = AllLabels(db.games, "genres") /\ pc' = "norm_insert_genres"
            /\ UNCHANGED <<db, committed, conn, report, exc>>
  /\ UNCHANGED <<normFrame, cursor, pos, swallowed>>

\* one turn of `for genre in all_genres` (a set: any order); an INSERT that
\* raises is passed over
NormInsertGenre ==
  /\ pc = "norm_insert_genres"
  /\ \E genre \in labels, err \in StoreErrors(1) :
       /\ labels' = labels \ {genre}
       /\ db' = IF err = {1} THEN db ELSE [db EXCEPT !.genres = InsertIgnoreLabel(@, genre)]
       /\ swallowed' = swallowed + Cardinality(err)
  /\ UNCHANGED <<normFrame, cursor, pos, pc, committed, conn, report, exc>>

\* conn.commit() after the genre inserts
NormCommitGenres ==
  /\ pc = "norm_insert_genres" /\ labels = {}
  /\ \E err \in BOOLEAN : CommitOrRaise(err, "commit_genres", "norm_link")
  /\ UNCHANGED <<normFrame, normVars, swallowed>>

\* SELECT app_id, genres FROM games WHERE genres IS NOT NULL; fetchall()
NormSelectLinks ==
  /\ pc = "norm_link"
  /\ \E err \in BOOLEAN :
       IF err THEN Propagate("select_links") /\ UNCHANGED <<cursor, pos>>
       ELSE /\ cursor' = LinkRows(db.games) /\ pos' = 1 /\ pc' = "norm_link_loop"
            /\ UNCHANGED <<db, committed, conn, report, exc>>
  /\ UNCHANGED <<normFrame, labels, swallowed>>

\* one fetched row of the link pass: an INSERT IGNORE ... SELECT per label
NormLinkRow ==
  /\ pc = "norm_link_loop" /\ pos <= Len(cursor)
  /\ LET toks == Labels(cursor[pos].genres)
     IN \E bad \in StoreErrors(Len(toks)) :
          /\ db' = [db EXCEPT !.game_genres =
                      LinkFrom(@, db.genres, cursor[pos].app_id, toks, bad, 1)]
          /\ swallowed' = swallowed + Cardinality(bad)
  /\ pos' = pos + 1
  /\ UNCHANGED <<normFrame, labels, cursor, pc, committed, conn, report, exc>>

\* conn.commit() after the link pass
NormCommitLinks ==
  /\ pc = "norm_link_loop" /\ pos > Len(cursor)
  /\ \E err \in BOOLEAN : CommitOrRaise(err, "commit_links", "norm_tags")
  /\ UNCHANGED <<normFrame, normVars, swallowed>>

\* SELECT DISTINCT tags ..., and the set all_tags
NormScanTags ==
  /\ pc = "norm_tags"
  /\ \E err \in BOOLEAN :
       IF err THEN Propagate("select_tags") /\ UNCHANGED labels
       ELSE /\ labels' = AllLabels(db.games, "tags") /\ pc' = "norm_insert_tags"
            /\ UNCHANGED <<db, committed, conn, report, exc>>
  /\ UNCHANGED <<normFrame, cursor, pos, swallowed>>

\* one turn of `for tag in all_tags`
NormInsertTag ==
  /\ pc = "norm_insert_tags"
  /\ \E tag \in labels, err \in StoreErrors(1) :
       /\ labels' = labels \ {tag}
       /\ db' = IF err = {1} THEN db ELSE [db EXCEPT !.tags = InsertIgnoreLabel(@, tag)]
       /\ swallowed' = swallowed + Cardinality(err)
  /\ UNCHANGED <<normFrame, cursor, pos, pc, committed, conn, report, exc>>

\* conn.commit() after the tag inserts; populate_normalized_tables returns
NormCommitTags ==
  /\ pc = "norm_insert_tags" /\ labels = {}
  /\ \E err \in BOOLEAN : CommitOrRaise(err, "commit_tags", "verify")
  /\ UNCHANGED <<normFrame, normVars, swallowed>>

\* ------------------------------------------------------------ main, the end
\* SELECT COUNT(*) FROM games, the count printed, conn.close()
Verify ==
  /\ pc = "verify"
  /\ \E err \in BOOLEAN :
       IF err THEN Propagate("select_count")
       ELSE /\ report' = [report EXCEPT !.count = Some(Cardinality(DOMAIN db.games))]
            /\ conn' = "closed" /\ pc' = "done"
            /\ UNCHANGED <<db, committed, exc>>
  /\ UNCHANGED <<normFrame, normVars, swallowed>>

\* After a run in which no statement raised, main() is started again on the
\* same CSV and the same database.
Rerun ==
  /\ pc = "done" /\ runs < MaxRuns /\ swallowed = 0
  /\ runs' = runs + 1 /\ snap' = db
  /\ pc' = "connect" /\ conn' = "none" /\ schema' = FALSE /\ report' = NoReport
  /\ idx' = 0 /\ inserted' = 0 /\ errors' = 0 /\ lastOp' = "none"
  /\ UNCHANGED <<inputVars, normVars, coerceVars, uncommitted, db, committed, swallowed,
                 exc, lost>>

Next ==
  \/ CreateConnection \/ ExecuteSchema
  \/ LoadBegin \/ LoadRow \/ LoadBatchCommit \/ LoadFinish \/ Crash
  \/ NormScanGenres \/ NormInsertGenre \/ NormCommitGenres
  \/ NormSelectLinks \/ NormLinkRow \/ NormCommitLinks
  \/ NormScanTags \/ NormInsertTag \/ NormCommitTags
  \/ Verify \/ Rerun

Spec == Init /\ [][Next]_vars

\* main() up to the return of load_games, the process not being killed: the
\* interpreter goes on with the next statement for as long as there is one.
NextLoad ==
  \/ CreateConnection \/ ExecuteSchema
  \/ LoadBegin \/ LoadRow \/ LoadBatchCommit \/ LoadFinish

\* LoadRow can be taken exactly when the loop has a record left, and taking
\* it always moves idx: this is WF_vars(LoadRow) with ENABLED written out
LoadRowEnabled == pc = "load_loop" /\ idx <= Len(source)
FairLoadRow == <>[]LoadRowEnabled => []<><<LoadRow>>_vars

SpecLoad ==
  /\ Init /\ [][NextLoad]_vars
  /\ WF_vars(CreateConnection) /\ WF_vars(ExecuteSchema)
  /\ WF_vars(LoadBegin) /\ FairLoadRow /\ WF_vars(LoadBatchCommit) /\ WF_vars(LoadFinish)

\* ------------------------------------------------------ the coercers, called
\* The pipeline stands still while a coercer is exercised on its own.
Parked ==
  /\ source = <<>> /\ rejects = {} /\ batch_size = 1
  /\ pc = "parked" /\ runs = 1 /\ conn = "none" /\ schema = FALSE
  /\ idx = 0 /\ inserted = 0 /\ errors = 0 /\ uncommitted = 0 /\ lastOp = "none"
  /\ db = EmptyDb /\ committed = EmptyDb /\ snap = EmptyDb
  /\ labels = {} /\ cursor = <<>> /\ pos = 0
  /\ report = NoReport /\ swallowed = 0 /\ exc = "none" /\ lost = 0
pipelineVars ==
  <<source, rejects, batch_size, pc, runs, conn, schema, idx, inserted, errors, uncommitted,
    lastOp, db, committed, labels, cursor, pos, report, swallowed, exc, lost, snap>>

\* every string of at most n characters of the alphabet A
RECURSIVE StringsUpTo(_, _)
StringsUpTo(A, n) ==
  IF n = 0 THEN {<<>>}
  ELSE LET shorter == StringsUpTo(A, n - 1)
       IN shorter \cup {Append(t, c) : t \in shorter, c \in A}

NumberAlphabet == {"1", "5", "-", ".", " ", "x"}
SpecialStrings ==
  { <<"i", "n", "f">>, <<"-", "I", "n", "f">>, <<"n", "a", "n">>, <<"N", "a", "N">>,
    <<"I", "n", "f", "i", "n", "i", "t", "y">>, <<" ", "+", "1", ".", "5", " ">> }
RawValues ==
  {Na, Obj, Bool(TRUE), Bool(FALSE), Num(Inf), Whole(3), Whole(0 - 3), Half(0 - 3)}
  \cup {List(n) : n \in 1..MaxListLen}
  \cup {Str(t) : t \in StringsUpTo(NumberAlphabet, MaxStrLen) \cup SpecialStrings}

IntDefaults == {0, 0 - 1}
FloatDefaults == {Fin(0), Fin(0 - Scale)}

InitCoerce ==
  /\ Parked
  /\ call \in [fn : {"safe_int"}, arg : RawValues, default : IntDefaults]
            \cup [fn : {"safe_float"}, arg : RawValues, default : FloatDefaults]
  /\ ret = NoRet

CallSafeInt ==
  /\ call.fn = "safe_int" /\ ret = NoRet
  /\ ret' = safe_int(call.arg, call.default)
  /\ UNCHANGED <<pipelineVars, call>>

CallSafeFloat ==
  /\ call.fn = "safe_float" /\ ret = NoRet
  /\ ret' = safe_float(call.arg, call.default)
  /\ UNCHANGED <<pipelineVars, call>>

NextCoerce == CallSafeInt \/ CallSafeFloat

SpecCoerce == InitCoerce /\ [][NextCoerce]_vars

\* ------------------------------------------------------- parse_date, called
Sp == <<" ">>
Comma == <<",">>
Dash == <<"-">>
MonthNames ==
  { <<"O", "c", "t">>, <<"O", "c", "t", "o", "b", "e", "r">>, <<"M", "a", "y">>,
    <<"f", "e", "b">>, <<"F", "E", "B", "R", "U", "A", "R", "Y">>, <<"O", "k", "t">> }
MonthNumbers == {<<"2">>, <<"0", "2">>, <<"1", "0">>, <<"1", "3">>}
DayNumbers == {<<"5">>, <<"0", "5">>, <<"2", "9">>, <<"3", "1">>, <<"3", "2">>}
YearNumbers == {<<"2", "0", "2", "4">>, <<"2", "0", "1", "9">>, <<"1", "8", "9", "9">>}

\* the four shapes parse_date knows, over the names and numbers above
ShapedDates ==
  {m \o Sp \o d \o Comma \o Sp \o y : m \in MonthNames, d \in DayNumbers, y \in YearNumbers}
  \cup {y \o Dash \o m \o Dash \o d : m \in MonthNumbers, d \in DayNumbers, y \in YearNumbers}
  \cup {d \o Sp \o m \o Comma \o Sp \o y : m \in MonthNames, d \in DayNumbers, y \in YearNumbers}

Circa2019 == <<"c", "i", "r", "c", "a", " ", "2", "0", "1", "9", " ", "r", "e", "l", "e", "a", "s", "e">>
Unknown == <<"u", "n", "k", "n", "o", "w", "n">>
Oct29 == <<"O", "c", "t", " ", "2", "9", ",", " ", "2", "0", "2", "4">>
October29 == <<"O", "c", "t", "o", "b", "e", "r", " ", "2", "9", ",", " ", "2", "0", "2", "4">>

\* strings of none of the shapes, with and without a year in them
LooseDates ==
  { <<>>, Sp, Sp \o Sp, Circa2019, Unknown,
    <<"v", "2", "0", "1", "9">>, <<"2", "0", "1", "9", "_", "x">>, <<"2", "0", "1", "9", "5">>,
    <<"Q", "3", " ", "2", "0", "2", "4", ".">>, <<"1", "8", "9", "9">>,
    <<"2", "0", "1", "9", "/", "2", "0", "2", "4">>, <<"1", "2", "0", "1", "9", " ", "1", "9", "9", "9">>,
    Oct29 \o <<" ", "x">>, <<"O", "c", "t", " ", "2", "9", " ", "2", "0", "2", "4">>,
    <<"O", "c", "t", "2", "9", ",", " ", "2", "0", "2", "4">>,
    Sp \o Oct29 \o Sp, <<"O", "c", "t", " ", " ", "2", "9", ",", " ", " ", "2", "0", "2", "4">>,
    <<"2", "9", " ", "O", "c", "t", " ", "2", "0", "2", "4">>,
    <<"2", "0", "2", "4", "-", "1", "0">>, <<"0", "0", "0", "0", "-", "1", "0", "-", "0", "5">> }

DateInputs == {Na} \cup {Str(t) : t \in ShapedDates \cup LooseDates}

InitDate ==
  /\ Parked
  /\ call \in [fn : {"parse_date"}, arg : DateInputs]
  /\ ret = NoRet

CallParseDate ==
  /\ call.fn = "parse_date" /\ ret = NoRet
  /\ ret' = parse_date(call.arg)
  /\ UNCHANGED <<pipelineVars, call>>

NextDate == CallParseDate

SpecDate == InitDate /\ [][NextDate]_vars

\* ================================================================== claims
MutableFields == {"name", "price", "positive_reviews", "negative_reviews"}
OtherFields == {"app_id", "release_date", "release_year", "genres", "tags"}
\* the record load_games has just executed, as the row mapper maps it
Executed == Values(source[idx - 1]).v
\* load_games has returned in this run
LoadReturned == report.loaded # None

\* C1: when load_games executes a record whose app_id is already stored, the
\* stored row takes the record's name, price, positive_reviews and
\* negative_reviews, keeps every other field, and no other row changes.
C1_UpsertUpdatesOnlyMutableFields ==
  [][(pc = "load_loop" /\ inserted' = inserted + 1
        /\ RowKey(source[idx]) \in DOMAIN db.games)
     => LET v == Values(source[idx]).v
            k == GamesKey(v)
        IN /\ DOMAIN db'.games = DOMAIN db.games
           /\ \A a \in DOMAIN db.games \ {k} : db'.games[a] = db.games[a]
           /\ \A f \in MutableFields : db'.games[k][f] = v[f]
           /\ \A f \in OtherFields : db'.games[k][f] = db.games[k][f]]_vars

\* a stored row was updated by a record with another release date and other
\* list fields, and still shows its own
C1_Witness ==
  /\ pc \in {"load_loop", "load_commit"} /\ lastOp = "update"
  /\ db.games[GamesKey(Executed)].name = Executed.name
  /\ db.games[GamesKey(Executed)].release_date # Executed.release_date
  /\ db.games[GamesKey(Executed)].genres # Executed.genres

\* C2: once load_games has returned in a second run over the same source,
\* the games table holds the keys it held after the first run, each with the
\* same name, price and review counts.
C2_LoadTwiceSameAsOnce ==
  (runs >= 2 /\ LoadReturned)
  => /\ DOMAIN db.games = DOMAIN snap.games
     /\ \A k \in DOMAIN db.games : \A f \in MutableFields : db.games[k][f] = snap.games[k][f]

\* a second run has loaded a source with two records of one key
C2_Witness ==
  /\ runs = 2 /\ LoadReturned /\ inserted = 3
  /\ Cardinality(DOMAIN db.games) = 2
  /\ \E i, j \in DOMAIN source : i < j /\ source[i] # source[j]
                                  /\ RowKey(source[i]) = RowKey(source[j])

\* the natural keys of the records at the given places of the source
KeysOf(places) == {RowKey(source[i]) : i \in places}

\* C3: when exactly the records at the places in `rejects` are refused by
\* the store, load_games runs to its end, reports |rejects| errors and
\* N - |rejects| inserted rows, and every other record's key is committed;
\* over distinct keys into an empty table that is N - |rejects| stored rows.
C3_ErrorIsolation ==
  LoadReturned
  => LET ok == DOMAIN source \ rejects
     IN /\ report.loaded[1].errors = Cardinality(rejects)
        /\ report.loaded[1].inserted = Cardinality(ok)
        /\ report.loaded[1].inserted + report.loaded[1].errors = Len(source)
        /\ KeysOf(ok) \subseteq DOMAIN committed.games
        /\ (runs = 1 /\ Cardinality(KeysOf(DOMAIN source)) = Len(source))
           => Cardinality(DOMAIN committed.games) = Len(source) - Cardinality(rejects)

\* three records, the second refused, the two others stored
C3_Witness ==
  /\ LoadReturned /\ Len(source) = 3 /\ rejects = {2}
  /\ report.loaded[1] = [inserted |-> 2, errors |-> 1]
  /\ KeysOf({1, 3}) \subseteq DOMAIN committed.games

\* C4: a commit is due exactly when the count of executed rows reaches a
\* multiple of batch_size, so never more than batch_size executed rows are
\* uncommitted, and a crash rolls back at most batch_size rows.
C4_AtMostOneBatchUncommitted ==
  /\ uncommitted <= batch_size
  /\ pc = "load_loop" => uncommitted = inserted % batch_size
  /\ pc = "load_commit" => (uncommitted = batch_size /\ inserted % batch_size = 0)
  /\ pc = "crashed" => lost <= batch_size

\* a crash just before the commit of a full batch of two rows
C4_Witness == pc = "crashed" /\ batch_size = 2 /\ lost = 2 /\ inserted = 2

\* the labels of a list field of a stored row
RowLabels(row, field) == IF row[field] = None THEN {} ELSE Range(Labels(row[field][1]))
HasLookup(lookup, label) == \E i \in DOMAIN lookup : lookup[i].name = label
HasLink(links, lookup, app_id, label) ==
  \E i \in DOMAIN lookup, j \in DOMAIN links :
    lookup[i].name = label /\ links[j] = [game_id |-> app_id, genre_id |-> lookup[i].id]
Normalized(d, field, lookup, links) ==
  \A k \in DOMAIN d.games : \A label \in RowLabels(d.games[k], field) :
    HasLookup(lookup, label) /\ HasLink(links, lookup, k, label)

\* C5: when the pipeline reports completion (here: of a run in which no
\* statement raised), every label of every stored row's list field, genres
\* and tags alike, has a lookup row and a junction row linking the product
\* to it.
C5_ListFieldsFullyNormalized ==
  (pc = "done" /\ swallowed = 0)
  => /\ Normalized(db, "genres", db.genres, db.game_genres)
     /\ Normalized(db, "tags", db.tags, db.game_tags)

NoDuplicates(tbl) == \A i, j \in DOMAIN tbl : tbl[i] = tbl[j] => i = j
UniqueLabels(lookup) == \A i, j \in DOMAIN lookup : lookup[i].name = lookup[j].name => i = j

\* C6: no label stands twice in a lookup table and no (product, label) pair
\* twice in the junction table, and a further run of the normaliser over
\* the same games leaves the lookup and junction tables as they were.
C6_NormalizerAddsNoDuplicates ==
  /\ UniqueLabels(db.genres) /\ UniqueLabels(db.tags) /\ NoDuplicates(db.game_genres)
  /\ (runs >= 2 /\ LoadReturned)
     => (db.genres = snap.genres /\ db.tags = snap.tags /\ db.game_genres = snap.game_genres)

\* a second run has normalised a row whose genres name "A" twice: two
\* lookup rows, two links
C6_Witness ==
  /\ runs = 2 /\ pc = "done"
  /\ \E k \in DOMAIN db.games :
       /\ db.games[k].genres # None
       /\ Labels(db.games[k].genres[1]) = <<<<"A">>, <<"R">>, <<"A">>>>
  /\ Len(db.genres) = 2 /\ Len(db.game_genres) = 2 /\ Len(db.tags) = 1

\* the statements of populate_normalized_tables that are not INSERTs
NormStatements ==
  {"select_genres", "commit_genres", "select_links", "commit_links", "select_tags",
   "commit_tags"}

\* C7: whatever storage error a statement of the normaliser raises, the
\* pipeline still reaches its exit path: the final count is reported and the
\* connection closed.
C7_NormalizerErrorReachesExitPath ==
  (pc = "raised" /\ exc \in NormStatements) => (report.count # None /\ conn = "closed")

\* The date string read as the claim words it, on the tokens of the text:
\* a standalone year is a run of exactly four digits that starts with 19 or
\* 20 and touches no letter and no underscore.
Blank(value) == value.kind = "na" \/ Strip(value.s) = <<>>
TouchesWord(toks, i) ==
  \/ (i > 1 /\ (toks[i - 1].t = "alpha" \/ toks[i - 1].s = <<"_">>))
  \/ (i < Len(toks) /\ (toks[i + 1].t = "alpha" \/ toks[i + 1].s = <<"_">>))
StandaloneYears(toks) ==
  {i \in DOMAIN toks : /\ toks[i].t = "num" /\ Len(toks[i].s) = 4
                       /\ SubSeq(toks[i].s, 1, 2) \in {<<"1", "9">>, <<"2", "0">>}
                       /\ ~TouchesWord(toks, i)}
Parsing(s) == {k \in DOMAIN formats : strptime(s, formats[k]).tag = "ok"}
\* YYYY-MM-DD: four digits, two digits, two digits, and the year they spell
CanonicalYear(date) ==
  IF /\ Len(date) = 10 /\ date[5] = "-" /\ date[8] = "-"
     /\ AllDigits(SubSeq(date, 1, 4) \o SubSeq(date, 6, 7) \o SubSeq(date, 9, 10))
  THEN DigitsVal(SubSeq(date, 1, 4)) ELSE -1

\* C9: parse_date gives (null, null) for a missing or blank value; else
\* the canonical date and year of the first format that parses the whole
\* text; else, when the text holds a standalone year 19xx or 20xx, January
\* 1st of the first such year and that year; else (null, null).  A returned
\* date is of the form YYYY-MM-DD and its year is the returned year.
C9_ParseDateThreeTiers ==
  ret # NoRet
  => LET s == Strip(call.arg.s)
         toks == Tokenize(s)
         parsing == Parsing(s)
         years == StandaloneYears(toks)
     IN /\ Blank(call.arg) => ret = DateResult(None, None)
        /\ (~Blank(call.arg) /\ parsing # {})
           => LET k == CHOOSE k \in parsing : \A j \in parsing : k <= j
                  dt == strptime(s, formats[k]).v
              IN /\ ret.year = Some(dt.year)
                 /\ ret.date = Some(Pad(dt.year, 4) \o <<"-">> \o Pad(dt.month, 2)
                                    \o <<"-">> \o Pad(dt.day, 2))
        /\ (~Blank(call.arg) /\ parsing = {} /\ years # {})
           => LET i == CHOOSE i \in years : \A j \in years : i <= j
                  y == DigitsVal(toks[i].s)
              IN ret = DateResult(Some(Pad(y, 4) \o <<"-", "0", "1", "-", "0", "1">>), Some(y))
        /\ (~Blank(call.arg) /\ parsing = {} /\ years = {}) => ret = DateResult(None, None)
        /\ ret.date # None => ret.year = Some(CanonicalYear(ret.date[1]))
        /\ ret.date = None => ret.year = None
        /\ call.arg = Str(Oct29) => ret = DateResult(Some(<<"2", "0", "2", "4", "-", "1", "0", "-", "2", "9">>), Some(2024))
        /\ call.arg = Str(October29) => ret = DateResult(Some(<<"2", "0", "2", "4", "-", "1", "0", "-", "2", "9">>), Some(2024))
        /\ call.arg = Str(Circa2019) => ret = DateResult(Some(<<"2", "0", "1", "9", "-", "0", "1", "-", "0", "1">>), Some(2019))
        /\ call.arg = Str(Unknown) => ret = DateResult(None, None)

\* a text of the shape "month day, year" naming no day of the calendar
\* (February 31st) has fallen through to the year alone
C9_Witness ==
  /\ ret # NoRet /\ ~Blank(call.arg)
  /\ Parsing(Strip(call.arg.s)) = {}
  /\ Len(Tokenize(Strip(call.arg.s))) = 6 /\ Tokenize(Strip(call.arg.s))[1].t = "alpha"
  /\ ret = DateResult(Some(<<"2", "0", "2", "4", "-", "0", "1", "-", "0", "1">>), Some(2024))

\* the two prerequisites of main(): the connection and the schema script
SetupFailures == {"connect", "schema_read"}

\* C10: when the connection cannot be made or the schema script cannot be
\* read, main() ends there: no schema statement has been executed, the
\* tables are as the run found them, load_games and the normaliser have not
\* started and nothing has been reported.
C10_SetupFailureDoesNoWork ==
  exc \in SetupFailures
  => /\ pc = "raised"
     /\ schema = FALSE
     /\ db = snap /\ committed = snap
     /\ idx = 0 /\ inserted = 0 /\ errors = 0
     /\ report = NoReport
     /\ conn = (IF exc = "connect" THEN "none" ELSE "open")

\* the schema script was unreadable in a second run, over stored games
C10_Witness ==
  /\ pc = "raised" /\ exc = "schema_read" /\ runs = 2 /\ conn = "open"
  /\ DOMAIN db.games # {}

\* C8: safe_int and safe_float return a value for every raw input and never
\* raise.
C8_CoercersNeverRaise == ret.tag # "raise"

\* load_games has returned with every executed row committed and the totals
\* of the run printed
LoadComplete ==
  /\ LoadReturned
  /\ uncommitted = 0 /\ committed = db
  /\ report.loaded[1] = [inserted |-> inserted, errors |-> errors]

\* C11: whatever the source and whichever of its records fail, load_games,
\* once started, comes to its end; and whenever it has returned, the final
\* commit has left no executed row uncommitted (a trailing batch smaller
\* than batch_size included) and the inserted and error totals are printed.
C11_LoadReachesCompletion ==
  /\ (pc = "load") ~> LoadComplete
  /\ [](LoadReturned => LoadComplete)

\* three records, the first and the last refused, batch_size 2: the one
\* executed row is committed by the final commit alone
C11_Witness ==
  /\ LoadComplete /\ Len(source) = 3 /\ rejects = {1, 3} /\ batch_size = 2
  /\ inserted = 1 /\ errors = 2
  /\ RowKey(source[2]) \in DOMAIN committed.games

\* the places of the records of key k, and of those the store accepted
PlacesOf(k) == {i \in DOMAIN source : RowKey(source[i]) = k}
AppliedOf(k) == PlacesOf(k) \ rejects
First(places) == CHOOSE i \in places : \A j \in places : i <= j
Last(places) == CHOOSE i \in places : \A j \in places : j <= i
\* the stored row of key k shows the mutable fields of the last of the
\* records at `places` and, for the rest, the row of before the run or else
\* the first of those records
LastWins(k, places) ==
  /\ k \in DOMAIN db.games
  /\ \A f \in MutableFields : db.games[k][f] = Values(source[Last(places)]).v[f]
  /\ \A f \in OtherFields :
       db.games[k][f] = IF k \in DOMAIN snap.games THEN snap.games[k][f]
                        ELSE Values(source[First(places)]).v[f]

\* load_games returns here; the normaliser has not begun
AtLoadReturn == LoadReturned /\ pc = "norm_genres"

\* C12 as worded: when load_games returns, a key that several records
\* of the source share shows the name, price and review counts of the last
\* of these records and the other fields of the first of them (or of the
\* row of before the run).
C12_LastRecordOfKeyWins ==
  AtLoadReturn
  => \A k \in {RowKey(source[i]) : i \in DOMAIN source} :
       Cardinality(PlacesOf(k)) >= 2 => LastWins(k, PlacesOf(k))

\* C12, over the records the store accepted: when load_games returns,
\* every key with an accepted record shows the name, price and review
\* counts of the last accepted record of that key and the other fields of
\* the first accepted one (or of the row of before the run).
C12_LastAcceptedRecordOfKeyWins ==
  AtLoadReturn
  => \A k \in {RowKey(source[i]) : i \in DOMAIN source} :
       AppliedOf(k) # {} => LastWins(k, AppliedOf(k))

\* three records of one key, the last one refused: the row shows the name
\* of the second and the release date of the first, and the two differ
\* from those of the other record
C12_Witness ==
  /\ AtLoadReturn /\ runs = 1 /\ Len(source) = 3 /\ rejects = {3}
  /\ \E k \in DOMAIN db.games :
       /\ PlacesOf(k) = {1, 2, 3}
       /\ db.games[k].name = Values(source[2]).v.name
       /\ db.games[k].name # Values(source[1]).v.name
       /\ db.games[k].name # Values(source[3]).v.name
       /\ db.games[k].release_date = Values(source[1]).v.release_date
       /\ db.games[k].release_date # Values(source[2]).v.release_date

\* the link pass of the genres field is under way
InLinkPass == pc \in {"norm_link", "norm_link_loop"}
\* every label of every stored row's genres has a committed lookup row
VocabularyPersisted ==
  \A label \in AllLabels(db.games, "genres") : HasLookup(committed.genres, label)
\* every junction row names a stored product and a stored lookup row
LinksReferToRows ==
  \A j \in DOMAIN db.game_genres :
    /\ db.game_genres[j].game_id \in DOMAIN db.games
    /\ \E i \in DOMAIN db.genres : db.genres[i].id = db.game_genres[j].genre_id
\* a step of the link pass: the link inserts of one fetched row
LinkInserts == pc = "norm_link_loop" /\ pos' = pos + 1

\* C13: while the link pass runs, the vocabulary of the field is complete
\* and committed; every junction row refers to a stored product and a
\* stored lookup row; and every label a link insert is attempted for has
\* its lookup row.
C13_VocabularyBeforeLinks ==
  /\ [](InLinkPass => VocabularyPersisted)
  /\ []LinksReferToRows
  /\ [][LinkInserts => \A label \in Range(Labels(cursor[pos].genres)) :
                         HasLookup(db.genres, label)]_vars

\* the games table after load_games has gone through the first n records of
\* the source, from the table `games` of before the run: the accepted
\* records upserted in source order, the others leaving no trace
RECURSIVE AppliedPrefix(_, _)
AppliedPrefix(games, n) ==
  IF n = 0 THEN games
  ELSE LET before == AppliedPrefix(games, n - 1)
           values == Values(source[n])
       IN IF values.tag = "raise" \/ n \in rejects THEN before
          ELSE Upsert(before, values.v)

\* load_games is running, has been killed while running, or returns
InLoad == pc \in {"load_loop", "load_commit", "crashed"} \/ AtLoadReturn

\* C14: at every point of a run of load_games, and after a kill at any such
\* point, the committed games table is the table of before the run with the
\* accepted records of some prefix of the source upserted in source order,
\* a prefix of records the loop has already gone through.
C14_CommittedIsAppliedPrefix ==
  InLoad => \E n \in 0..(idx - 1) : committed.games = AppliedPrefix(snap.games, n)

\* killed after the third record with batch_size 2: the commit holds the
\* first two records and not the third
C14_Witness ==
  /\ pc = "crashed" /\ batch_size = 2 /\ rejects = {} /\ inserted = 3 /\ lost = 1
  /\ committed.games = AppliedPrefix(snap.games, 2)
  /\ committed.games # AppliedPrefix(snap.games, 3)

====
